---------------------------- MODULE Spec2Model ----------------------------
(***************************************************************************)
(* Model of chess_analyzer.py, a Streamlit script.  Streamlit re-runs the  *)
(* whole script top to bottom on every user interaction; st.session_state  *)
(* (board, evals, move_history, last_data) survives between runs.  One run *)
(* is modelled in three steps, in script order:                            *)
(*    Render   lines 53-69    widgets are read, the eval bar samples       *)
(*    handler  lines 80-155   the button that triggered the run is handled *)
(*    Summary  lines 157-187  the read-only displays, end of the run       *)
(* An exception outside the try block of the Play Move handler is not      *)
(* caught by the script: the run is aborted where it stands.               *)
(*                                                                         *)
(* Python strings are sequences of one-character strings, so that strip()  *)
(* and Move.from_uci() are computed and not assumed.                       *)
(***************************************************************************)
EXTENDS Integers, Sequences, FiniteSets, TLC

VARIABLES
    board,         \* st.session_state.board : the move stack from the initial layout
    evals,         \* st.session_state.evals
    move_history,  \* st.session_state.move_history
    last_data,     \* st.session_state.get("last_data", {}) : <<>> is {}, else <<dict>>
    user_move,     \* the script's name user_move (line 54): the text of the input
                   \* field as the current run read it
    button,        \* the button whose click triggered the current run
    pc,            \* position of the script run
    report,        \* what the current run reported with st.error / as a traceback
    queries,       \* the Engine calls issued by the current run, in order
    eval_data,     \* the script's name eval_data (line 64)
    bar_height,    \* local of draw_eval_bar (line 41), as called at line 67
    played_eval,   \* local of the Play Move handler (line 92)
    best_move,     \* local of the Play Move handler (line 93)
    best_eval,     \* local of the Play Move handler (line 97)
    quality,       \* local of the Play Move handler (line 114)
    before,        \* history variable: session state at entry of the handler of this run
    played         \* history variable: session state before the Play Move handler of
                   \* the previous run, if that run played a move successfully

vars == <<board, evals, move_history, last_data, user_move, button, pc, report,
          queries, eval_data, bar_height, played_eval, best_move, best_eval, quality,
          before, played>>

session == <<board, evals, move_history, last_data>>

-----------------------------------------------------------------------------
(* Bounds *)

\* Render does not start a sampling run once evals holds this many samples.
MaxEvals == 4

-----------------------------------------------------------------------------
(* Python strings *)

Str(a, b, c, d) == <<a, b, c, d>>

\* str.strip(): leading and trailing white space removed.
RECURSIVE lstrip(_)
lstrip(s) == IF s # <<>> /\ Head(s) = " " THEN lstrip(Tail(s)) ELSE s

RECURSIVE rstrip(_)
rstrip(s) == IF s # <<>> /\ s[Len(s)] = " " THEN rstrip(SubSeq(s, 1, Len(s) - 1)) ELSE s

strip(s) == rstrip(lstrip(s))

-----------------------------------------------------------------------------
(* chess.Move *)

FILE_NAMES == {"a", "b", "c", "d", "e", "f", "g", "h"}
RANK_NAMES == {"1", "2", "3", "4", "5", "6", "7", "8"}
PROMOTION_SYMBOLS == {"p", "n", "b", "r", "q", "k"}

IsSquareName(f, r) == f \in FILE_NAMES /\ r \in RANK_NAMES

Move(f1, r1, f2, r2) ==
    [from_square |-> <<f1, r1>>, to_square |-> <<f2, r2>>, promotion |-> ""]

NullMove == [from_square |-> <<"0", "0">>, to_square |-> <<"0", "0">>, promotion |-> ""]

\* chess.Move.from_uci succeeds on s (it raises InvalidMoveError otherwise).
uci_ok(s) ==
    \/ s = Str("0", "0", "0", "0")
    \/ /\ Len(s) \in {4, 5}
       /\ IsSquareName(s[1], s[2])
       /\ IsSquareName(s[3], s[4])
       /\ Len(s) = 5 => s[5] \in PROMOTION_SYMBOLS
       /\ <<s[1], s[2]>> # <<s[3], s[4]>>

\* chess.Move.from_uci(s) where it succeeds.
from_uci(s) ==
    IF s = Str("0", "0", "0", "0") THEN NullMove
    ELSE [from_square |-> <<s[1], s[2]>>, to_square |-> <<s[3], s[4]>>,
          promotion |-> IF Len(s) = 5 THEN s[5] ELSE ""]

\* Move.uci(): the notation the engine speaks.
uci(m) ==
    <<m.from_square[1], m.from_square[2], m.to_square[1], m.to_square[2]>>
        \o (IF m.promotion = "" THEN <<>> ELSE <<m.promotion>>)


-----------------------------------------------------------------------------
(* Rules Service: chess.Board, restricted to the games that can be played  *)
(* with the five moves below (and the replies of the engine).  Within them *)
(* the rules of chess reduce to the definitions that follow: the only      *)
(* check is the queen on h4 against the king on e1 once the f-pawn has     *)
(* left f2, and it is mate (1.f3 e5 2.g4 Qh4#, in either order of White's  *)
(* moves) when the g-pawn cannot block on g3 and e2 is still occupied.     *)

E2E4 == Move("e", "2", "e", "4")
F2F3 == Move("f", "2", "f", "3")
G2G4 == Move("g", "2", "g", "4")
E7E5 == Move("e", "7", "e", "5")
D8H4 == Move("d", "8", "h", "4")
\* quiet moves that only the engine proposes
A2A3 == Move("a", "2", "a", "3")
A7A6 == Move("a", "7", "a", "6")
G2G3 == Move("g", "2", "g", "3")
E1E2 == Move("e", "1", "e", "2")

WhiteMoves == {E2E4, F2F3, G2G4}
BlackMoves == {E7E5, D8H4}

\* chess.Board(): the standard initial layout, no move applied
InitialBoard == <<>>

move_stack(b) == b

Made(b, m) == \E i \in 1..Len(b) : b[i] = m

WhiteToMove(b) == Len(b) % 2 = 0

is_check(b) == WhiteToMove(b) /\ Made(b, D8H4) /\ Made(b, F2F3)

is_checkmate(b) == is_check(b) /\ Made(b, G2G4) /\ ~Made(b, E2E4)

\* board.is_game_over(): within these games only checkmate ends the game
is_game_over(b) == is_checkmate(b)

\* move in board.legal_moves, for the moves a user of the model can submit
is_legal(b, m) ==
    IF WhiteToMove(b)
    THEN /\ m \in WhiteMoves
         /\ ~Made(b, m)
         /\ ~is_check(b)                        \* no move of WhiteMoves answers the check
         /\ ~(m = F2F3 /\ Made(b, D8H4))        \* the f-pawn is pinned by the queen
    ELSE \/ m = E7E5 /\ ~Made(b, m)
         \/ m = D8H4 /\ ~Made(b, m) /\ Made(b, E7E5)  \* the diagonal d8-h4 is open

legal_moves(b) == {m \in WhiteMoves \cup BlackMoves : is_legal(b, m)}

\* board.push(move)
push(b, m) == Append(b, m)

\* board.pop()
pop(b) == SubSeq(b, 1, Len(b) - 1)

\* board.fen(): the position as exchanged with the engine
fen(b) == b

-----------------------------------------------------------------------------
(* Engine Service: the stockfish process, a black box.  Every call may     *)
(* raise.  What it answers is a function of the position it is asked       *)
(* about: a mate score where a mate is on the board or one move away, else *)
(* a centipawn score that adds up what the moves made are worth; the best  *)
(* move is a legal move of the position, or None when it has none.         *)

Evaluation(type, value) == [type |-> type, value |-> value]

\* what a move made is worth to White, in centipawns
Worth(m) ==
    CASE m = E2E4 -> 30
      [] m = F2F3 -> -90
      [] m = G2G4 -> -150
      [] m = E7E5 -> -20
      [] m = D8H4 -> 300
      [] OTHER -> 0

RECURSIVE Centipawns(_)
Centipawns(b) == IF b = <<>> THEN 25 ELSE Worth(b[Len(b)]) + Centipawns(SubSeq(b, 1, Len(b) - 1))

\* Black mates with the queen on the next move
MateInOne(b) ==
    /\ ~WhiteToMove(b)
    /\ is_legal(b, D8H4)
    /\ is_checkmate(push(b, D8H4))

\* stockfish.get_evaluation() on the position b
get_evaluation(b) ==
    IF is_checkmate(b) THEN Evaluation("mate", 0)
    ELSE IF MateInOne(b) THEN Evaluation("mate", -1)
    ELSE Evaluation("cp", Centipawns(b))

\* Python's None, where a move string is expected
None == <<>>

\* a legal move the engine can fall back on when no move of the five is legal
QuietMove(b) ==
    IF is_check(b) THEN (IF Made(b, G2G4) THEN E1E2 ELSE G2G3)
    ELSE IF WhiteToMove(b) THEN A2A3 ELSE A7A6

\* stockfish.get_best_move() on the position b
BestMoves(b) ==
    IF is_game_over(b) THEN {None}
    ELSE IF legal_moves(b) # {} THEN {uci(m) : m \in legal_moves(b)}
    ELSE {uci(QuietMove(b))}

\* the engine's position after make_moves_from_current_position([bm]) on b
engine_moves(b, bm) == IF bm = None THEN b ELSE Append(b, from_uci(bm))

Query(op, position) == [op |-> op, position |-> position]

PlayQueries_best_move_first(p1, bm) ==
    << Query("set_fen_position", fen(p1)),
       Query("get_best_move", fen(p1)),
       Query("get_evaluation", fen(p1)),
       Query("set_fen_position", fen(p1)),
       Query("make_moves_from_current_position", engine_moves(p1, bm)),
       Query("get_evaluation", engine_moves(p1, bm)) >>

\* the six engine calls of the Play Move handler on P1 with best move bm, in order
PlayQueries(p1, bm) ==
    << Query("set_fen_position", fen(p1)),
       Query("get_evaluation", fen(p1)),
       Query("get_best_move", fen(p1)),
       Query("set_fen_position", fen(p1)),
       Query("make_moves_from_current_position", engine_moves(p1, bm)),
       Query("get_evaluation", engine_moves(p1, bm)) >>

\* the two engine calls of the eval bar on the position b
RenderQueries(b) ==
    << Query("set_fen_position", fen(b)), Query("get_evaluation", fen(b)) >>

-----------------------------------------------------------------------------
(* Inputs of a run *)

Buttons == {"none", "play", "undo", "reset"}

\* the text that is in the field when a button other than Play Move triggers the run
EmptyText == <<>>

\* texts of the move input field: five moves of the games above, a well formed
\* move that is never legal, a padded move, and a text that is no move
UserInputs ==
    { Str("e", "2", "e", "4"), Str("f", "2", "f", "3"), Str("g", "2", "g", "4"),
      Str("e", "7", "e", "5"), Str("d", "8", "h", "4"), Str("e", "2", "e", "5"),
      <<" ">> \o Str("e", "2", "e", "4"), <<"e", "2">> }

-----------------------------------------------------------------------------
(* Values of the run-scoped variables *)

NoReport == [msg |-> "", e |-> ""]
IllegalMove == [msg |-> "Illegal move.", e |-> ""]
InvalidFormat(e) == [msg |-> "Invalid move format", e |-> e]
Uncaught(e) == [msg |-> "uncaught exception", e |-> e]

Snapshot == [board |-> board, evals |-> evals, move_history |-> move_history,
             last_data |-> last_data, queries |-> queries]

-----------------------------------------------------------------------------
(* Pure functions of the script *)

eval_score_mate_zero(data) ==
    IF data.type = "cp" THEN data.value
    ELSE IF data.value >= 0 THEN 1000 ELSE -1000

\* line 65
eval_score(data) ==
    IF data.type = "cp" THEN data.value
    ELSE IF data.value > 0 THEN 1000 ELSE -1000

max(x, y) == IF x >= y THEN x ELSE y

min(x, y) == IF x <= y THEN x ELSE y

\* lines 31-47: the height of the bar's fill (lines 32 and 41)
draw_eval_bar(score_cp) ==
    LET score == max(min(score_cp, 1000), -1000) IN 1000 + score

abs(x) == IF x < 0 THEN -x ELSE x

move_quality_shifted(score1, score2) ==
    IF score1.type # score2.type THEN "Unclear"
    ELSE LET diff == abs(score1.value - score2.value) IN
         IF diff <= 30 THEN "Excellent"
         ELSE IF diff <= 80 THEN "Good"
         ELSE IF diff <= 150 THEN "Inaccuracy"
         ELSE IF diff <= 300 THEN "Mistake"
         ELSE "Blunder"

move_quality_untyped(score1, score2) ==
    LET diff == abs(score1.value - score2.value) IN
    IF diff < 30 THEN "Excellent"
    ELSE IF diff < 80 THEN "Good"
    ELSE IF diff < 150 THEN "Inaccuracy"
    ELSE IF diff < 300 THEN "Mistake"
    ELSE "Blunder"

\* lines 99-112; the labels without their emoji
move_quality(score1, score2) ==
    IF score1.type # score2.type THEN "Unclear"
    ELSE LET diff == abs(score1.value - score2.value) IN
         IF diff < 30 THEN "Excellent"
         ELSE IF diff < 80 THEN "Good"
         ELSE IF diff < 150 THEN "Inaccuracy"
         ELSE IF diff < 300 THEN "Mistake"
         ELSE "Blunder"

\* lines 116-121
LastData(um, bm, q, pe) ==
    [user_move |-> um, best_move |-> bm, quality |-> q, eval |-> pe]

HistoryRow_swapped(um, bm, q, pe) ==
    [Your_Move |-> bm, Best_Move |-> um, Move_Quality |-> q, Eval |-> pe.value]

\* lines 124-129
HistoryRow(um, bm, q, pe) ==
    [Your_Move |-> um, Best_Move |-> bm, Move_Quality |-> q, Eval |-> pe.value]

-----------------------------------------------------------------------------
(* Init: lines 18-23, before the first run *)

Init ==
    /\ board = InitialBoard
    /\ evals = <<>>
    /\ move_history = <<>>
    /\ last_data = <<>>
    /\ user_move = <<>>
    /\ button = "none"
    /\ pc = "idle"
    /\ report = NoReport
    /\ queries = <<>>
    /\ eval_data = <<>>
    /\ bar_height = <<>>
    /\ played_eval = <<>>
    /\ best_move = <<>>
    /\ best_eval = <<>>
    /\ quality = ""
    /\ before = <<>>
    /\ played = <<>>

-----------------------------------------------------------------------------
(* Render: a run starts with the widget values of the interaction (lines   *)
(* 54, 85, 142, 151) and draws the eval bar (lines 60-69).                 *)

Interactions ==
    {<<btn, EmptyText>> : btn \in Buttons \ {"play"}}
        \cup {<<"play", text>> : text \in UserInputs}

StartRun(btn, text) ==
    /\ pc = "idle"
    /\ button' = btn
    /\ user_move' = text
    /\ UNCHANGED <<board, move_history, last_data, played_eval, best_move,
                   best_eval, quality, before>>

\* lines 62-67: the game is not over, the engine answers
RenderSample(btn, text) ==
    /\ StartRun(btn, text)
    /\ ~is_game_over(board)
    /\ Len(evals) < MaxEvals
    /\ eval_data' = <<get_evaluation(fen(board))>>
    /\ evals' = Append(evals, eval_score(eval_data'[1]))
    /\ bar_height' = <<draw_eval_bar(eval_score(eval_data'[1]))>>
    /\ queries' = RenderQueries(board)
    /\ report' = NoReport
    /\ pc' = "handlers"
    /\ UNCHANGED played

RenderGameOver_samples(btn, text) ==
    /\ StartRun(btn, text)
    /\ is_game_over(board)
    /\ eval_data' = <<get_evaluation(fen(board))>>
    /\ evals' = Append(evals, eval_score(eval_data'[1]))
    /\ bar_height' = <<draw_eval_bar(eval_score(eval_data'[1]))>>
    /\ queries' = RenderQueries(board)
    /\ report' = NoReport
    /\ pc' = "handlers"
    /\ UNCHANGED played

\* lines 68-69: the game is over
RenderGameOver(btn, text) ==
    /\ StartRun(btn, text)
    /\ is_game_over(board)
    /\ queries' = <<>>
    /\ report' = NoReport
    /\ pc' = "handlers"
    /\ UNCHANGED <<evals, eval_data, bar_height, played>>

\* lines 63-64: call n of the two engine calls raises; nothing catches it
RenderEngineError(btn, text, n) ==
    /\ StartRun(btn, text)
    /\ ~is_game_over(board)
    /\ queries' = SubSeq(RenderQueries(board), 1, n)
    /\ report' = Uncaught("engine error")
    /\ pc' = "aborted"
    /\ UNCHANGED <<evals, eval_data, bar_height, played>>

Render ==
    \E i \in Interactions :
        \/ RenderSample(i[1], i[2])
        \/ RenderGameOver(i[1], i[2])
        \/ \E n \in 1..2 : RenderEngineError(i[1], i[2], n)

-----------------------------------------------------------------------------
(* The button handlers, lines 80-155.  At most one button is pressed in a  *)
(* run; each handler action is the whole handler.                          *)

Handling(btn) ==
    /\ pc = "handlers"
    /\ button = btn
    /\ pc' = "summary"
    /\ before' = <<Snapshot>>
    /\ UNCHANGED <<user_move, button, eval_data, bar_height>>

NoLocals == UNCHANGED <<played_eval, best_move, best_eval, quality>>

\* a run that no button triggered (the page was opened or the text changed)
NoButton ==
    /\ Handling("none")
    /\ NoLocals
    /\ UNCHANGED <<board, evals, move_history, last_data, report, queries, played>>

PlayMoveInvalid_forgets ==
    /\ Handling("play")
    /\ ~uci_ok(strip(user_move))
    /\ report' = InvalidFormat("InvalidMoveError")
    /\ last_data' = <<>>
    /\ NoLocals
    /\ UNCHANGED <<board, evals, move_history, queries, played>>

\* line 87 raises InvalidMoveError; lines 138-139
PlayMoveInvalid ==
    /\ Handling("play")
    /\ ~uci_ok(strip(user_move))
    /\ report' = InvalidFormat("InvalidMoveError")
    /\ NoLocals
    /\ UNCHANGED <<board, evals, move_history, last_data, queries, played>>

PlayMoveIllegal_pushes ==
    /\ Handling("play")
    /\ uci_ok(strip(user_move))
    /\ ~is_legal(board, from_uci(strip(user_move)))
    /\ board' = push(board, from_uci(strip(user_move)))
    /\ report' = IllegalMove
    /\ NoLocals
    /\ UNCHANGED <<evals, move_history, last_data, queries, played>>

\* lines 87-88, 136-137
PlayMoveIllegal ==
    /\ Handling("play")
    /\ uci_ok(strip(user_move))
    /\ ~is_legal(board, from_uci(strip(user_move)))
    /\ report' = IllegalMove
    /\ NoLocals
    /\ UNCHANGED <<board, evals, move_history, last_data, queries, played>>

\* lines 87-97, 138-139: the move is pushed, then call n of the six engine
\* calls raises; bm is what the engine answers for the best move
PlayMoveEngineError(n, bm) ==
    /\ Handling("play")
    /\ uci_ok(strip(user_move))
    /\ is_legal(board, from_uci(strip(user_move)))
    /\ board' = push(board, from_uci(strip(user_move)))
    /\ queries' = queries \o SubSeq(PlayQueries(board', bm), 1, n)
    /\ played_eval' = IF n > 2 THEN <<get_evaluation(fen(board'))>> ELSE <<>>
    /\ best_move' = IF n > 3 THEN <<bm>> ELSE <<>>
    /\ report' = InvalidFormat("engine error")
    /\ UNCHANGED <<evals, move_history, last_data, best_eval, quality, played>>

\* lines 87-134: the move is legal and the engine answers every call
PlayMoveOk(bm) ==
    /\ Handling("play")
    /\ uci_ok(strip(user_move))
    /\ is_legal(board, from_uci(strip(user_move)))
    /\ board' = push(board, from_uci(strip(user_move)))
    /\ queries' = queries \o PlayQueries(board', bm)
    /\ played_eval' = <<get_evaluation(fen(board'))>>
    /\ best_move' = <<bm>>
    /\ best_eval' = <<get_evaluation(engine_moves(fen(board'), bm))>>
    /\ quality' = move_quality(played_eval'[1], best_eval'[1])
    /\ last_data' = <<LastData(user_move, bm, quality', played_eval'[1])>>
    /\ move_history' =
           Append(move_history, HistoryRow(user_move, bm, quality', played_eval'[1]))
    /\ played' = <<[board |-> board, evals |-> evals, move_history |-> move_history]>>
    /\ UNCHANGED <<evals, report>>

PlayMove ==
    \/ PlayMoveInvalid
    \/ PlayMoveIllegal
    \/ /\ uci_ok(strip(user_move))
       /\ \E n \in 1..6 :
            \E bm \in BestMoves(push(board, from_uci(strip(user_move)))) :
                PlayMoveEngineError(n, bm)
    \/ /\ uci_ok(strip(user_move))
       /\ \E bm \in BestMoves(push(board, from_uci(strip(user_move)))) :
            PlayMoveOk(bm)

Undo_keeps_history ==
    /\ Handling("undo")
    /\ IF move_stack(board) # <<>>
       THEN /\ board' = pop(board)
            /\ evals' = IF evals # <<>> THEN SubSeq(evals, 1, Len(evals) - 1) ELSE evals
       ELSE UNCHANGED <<board, evals>>
    /\ NoLocals
    /\ UNCHANGED <<move_history, last_data, report, queries, played>>

Undo_gated_on_history ==
    /\ Handling("undo")
    /\ IF move_history # <<>>
       THEN /\ board' = pop(board)
            /\ evals' = IF evals # <<>> THEN SubSeq(evals, 1, Len(evals) - 1) ELSE evals
            /\ move_history' = SubSeq(move_history, 1, Len(move_history) - 1)
       ELSE UNCHANGED <<board, evals, move_history>>
    /\ NoLocals
    /\ UNCHANGED <<last_data, report, queries, played>>

\* lines 141-148
Undo ==
    /\ Handling("undo")
    /\ IF move_stack(board) # <<>>
       THEN /\ board' = pop(board)
            /\ evals' = IF evals # <<>> THEN SubSeq(evals, 1, Len(evals) - 1) ELSE evals
            /\ move_history' = IF move_history # <<>>
                               THEN SubSeq(move_history, 1, Len(move_history) - 1)
                               ELSE move_history
       ELSE UNCHANGED <<board, evals, move_history>>
    /\ NoLocals
    /\ UNCHANGED <<last_data, report, queries, played>>

Reset_keeps_summary ==
    /\ Handling("reset")
    /\ board' = InitialBoard
    /\ evals' = <<>>
    /\ move_history' = <<>>
    /\ NoLocals
    /\ UNCHANGED <<last_data, report, queries, played>>

\* lines 150-155
Reset ==
    /\ Handling("reset")
    /\ board' = InitialBoard
    /\ evals' = <<>>
    /\ move_history' = <<>>
    /\ last_data' = <<>>
    /\ NoLocals
    /\ UNCHANGED <<report, queries, played>>

-----------------------------------------------------------------------------
(* End of a run *)

PlayedOk == button = "play" /\ quality # ""

\* lines 157-187: the summary cards, the history table and the chart only read
\* the session; the names of the run go out of scope
Summary ==
    /\ pc = "summary"
    /\ pc' = "idle"
    /\ button' = "none"
    /\ report' = NoReport
    /\ queries' = <<>>
    /\ eval_data' = <<>>
    /\ bar_height' = <<>>
    /\ played_eval' = <<>>
    /\ best_move' = <<>>
    /\ best_eval' = <<>>
    /\ quality' = ""
    /\ before' = <<>>
    /\ played' = IF PlayedOk THEN played ELSE <<>>
    /\ user_move' = EmptyText
    /\ UNCHANGED <<board, evals, move_history, last_data>>

\* the run that an uncaught exception stopped: no handler and no display ran
Abort ==
    /\ pc = "aborted"
    /\ pc' = "idle"
    /\ button' = "none"
    /\ report' = NoReport
    /\ queries' = <<>>
    /\ played' = <<>>
    /\ user_move' = EmptyText
    /\ UNCHANGED <<board, evals, move_history, last_data, eval_data, bar_height,
                   played_eval, best_move, best_eval, quality, before>>

Next ==
    \/ Render
    \/ NoButton
    \/ PlayMove
    \/ Undo
    \/ Reset
    \/ Summary
    \/ Abort

Spec == Init /\ [][Next]_vars

-----------------------------------------------------------------------------
(* The classification alone: move_quality (lines 99-114) applied to every  *)
(* pair of the scores below.                                               *)

ScoreValues == {-150, -1, 0, 29, 30, 79, 80, 149, 150, 299, 300, 301}

Scores == {Evaluation(t, v) : t \in {"cp", "mate"}, v \in ScoreValues}

InitQuality ==
    /\ board = InitialBoard
    /\ evals = <<>>
    /\ move_history = <<>>
    /\ last_data = <<>>
    /\ user_move = EmptyText
    /\ button = "none"
    /\ pc = "classify"
    /\ report = NoReport
    /\ queries = <<>>
    /\ eval_data = <<>>
    /\ bar_height = <<>>
    /\ \E score1 \in Scores, score2 \in Scores :
           played_eval = <<score1>> /\ best_eval = <<score2>>
    /\ best_move = <<>>
    /\ quality = ""
    /\ before = <<>>
    /\ played = <<>>

\* line 114
Classify ==
    /\ pc = "classify"
    /\ quality' = move_quality(played_eval[1], best_eval[1])
    /\ pc' = "classified"
    /\ UNCHANGED <<board, evals, move_history, last_data, user_move, button, report,
                   queries, eval_data, bar_height, played_eval, best_move, best_eval,
                   before, played>>

NextQuality == Classify

SpecQuality == InitQuality /\ [][NextQuality]_vars

(***************************************************************************)
(* The eval bar's arithmetic (lines 31-47 and 64-67) on evaluations of     *)
(* both kinds, inside and outside the bar's range.                         *)
(***************************************************************************)
BarValues == {-2000, -1500, -1001, -1000, -999, -500, -30, -2, -1, 0,
              1, 2, 30, 500, 999, 1000, 1001, 1500, 2000}

BarScores == {Evaluation(t, v) : t \in {"cp", "mate"}, v \in BarValues}

\* line 64: the engine has answered with some evaluation
InitEvalBar ==
    /\ board = InitialBoard
    /\ evals = <<>>
    /\ move_history = <<>>
    /\ last_data = <<>>
    /\ user_move = EmptyText
    /\ button = "none"
    /\ pc = "sample"
    /\ report = NoReport
    /\ queries = <<>>
    /\ \E e \in BarScores : eval_data = <<e>>
    /\ bar_height = <<>>
    /\ played_eval = <<>>
    /\ best_move = <<>>
    /\ best_eval = <<>>
    /\ quality = ""
    /\ before = <<>>
    /\ played = <<>>

\* lines 65-66
Sample ==
    /\ pc = "sample"
    /\ evals' = Append(evals, eval_score(eval_data[1]))
    /\ pc' = "draw"
    /\ UNCHANGED <<board, move_history, last_data, user_move, button, report,
                   queries, eval_data, bar_height, played_eval, best_move,
                   best_eval, quality, before, played>>

\* line 67
Draw ==
    /\ pc = "draw"
    /\ bar_height' = <<draw_eval_bar(evals[Len(evals)])>>
    /\ pc' = "drawn"
    /\ UNCHANGED <<board, evals, move_history, last_data, user_move, button,
                   report, queries, eval_data, played_eval, best_move,
                   best_eval, quality, before, played>>

NextEvalBar == Sample \/ Draw

SpecEvalBar == InitEvalBar /\ [][NextEvalBar]_vars

-----------------------------------------------------------------------------
(* Properties.  In a state with pc = "summary" the handler of the run has  *)
(* just returned: before[1] is the session as the handler found it (after  *)
(* the sampling of the same run), the session variables are as it left it. *)

Handled(btn) == pc = "summary" /\ button = btn

Distance(x, y) == IF x >= y THEN x - y ELSE y - x

\* C1: in every reachable state the move history has as many records as the
\* evaluation-sample sequence has entries.
C1_Lockstep == Len(move_history) = Len(evals)

\* C2: the Reset handler, from whatever state, leaves the initial layout, an
\* empty move history, an empty sample sequence and an empty summary, and
\* reports no error.
C2_ResetClears ==
    Handled("reset") =>
        /\ board = InitialBoard
        /\ move_history = <<>>
        /\ evals = <<>>
        /\ last_data = <<>>
        /\ report = NoReport

\* Reset has run on a session that held plies, records, samples and a summary.
C2_Witness ==
    /\ Handled("reset")
    /\ before[1].board # InitialBoard
    /\ before[1].move_history # <<>>
    /\ before[1].evals # <<>>
    /\ before[1].last_data # <<>>

\* C3: the Undo handler, run on an empty move history, changes neither the
\* Position nor the history nor the samples, and reports no error.
C3_UndoOnEmptyHistory ==
    (Handled("undo") /\ before[1].move_history = <<>>) =>
        /\ board = before[1].board
        /\ move_history = before[1].move_history
        /\ evals = before[1].evals
        /\ report = NoReport

\* C4: when the run after a successful Play Move handles Undo, the move history
\* and the samples are again what they were when that Play Move was handled.
C4_UndoInvertsPlay ==
    (Handled("undo") /\ played # <<>>) =>
        /\ move_history = played[1].move_history
        /\ evals = played[1].evals

\* the label each boundary value of diff gets
BoundaryLabel ==
    (29 :> "Excellent") @@ (30 :> "Good") @@ (79 :> "Good") @@ (80 :> "Inaccuracy")
        @@ (149 :> "Inaccuracy") @@ (150 :> "Mistake") @@ (299 :> "Mistake")
        @@ (300 :> "Blunder")

\* C5: for two evaluations of one kind the label is decided by diff, the distance
\* of their values, in half-open lower-inclusive buckets at 30, 80, 150 and 300,
\* and the eight boundary values of diff get the labels of BoundaryLabel.
C5_QualityBuckets ==
    (pc = "classified" /\ played_eval[1].type = best_eval[1].type) =>
        LET diff == Distance(played_eval[1].value, best_eval[1].value) IN
        /\ quality = "Excellent" <=> diff < 30
        /\ quality = "Good" <=> (30 <= diff /\ diff < 80)
        /\ quality = "Inaccuracy" <=> (80 <= diff /\ diff < 150)
        /\ quality = "Mistake" <=> (150 <= diff /\ diff < 300)
        /\ quality = "Blunder" <=> diff >= 300
        /\ diff \in DOMAIN BoundaryLabel => quality = BoundaryLabel[diff]

\* a pair of one kind whose values are exactly 300 apart has been classified
C5_Witness ==
    /\ pc = "classified"
    /\ played_eval[1].type = best_eval[1].type
    /\ Distance(played_eval[1].value, best_eval[1].value) = 300
    /\ quality = "Blunder"

\* C6: the label is Unclear exactly when the two evaluations are of different
\* kinds, whatever their values.
C6_CrossKindUnclear ==
    pc = "classified" =>
        (quality = "Unclear" <=> played_eval[1].type # best_eval[1].type)

\* a centipawn score and a mate score of the same value have been classified
C6_Witness ==
    /\ pc = "classified"
    /\ played_eval[1].type = "cp"
    /\ best_eval[1].type = "mate"
    /\ played_eval[1].value = best_eval[1].value
    /\ quality = "Unclear"

\* C7: a Play Move whose text is no move notation is reported as an invalid
\* format and the handler leaves the whole session as it found it.
C7_InvalidFormatNoChange ==
    (Handled("play") /\ ~uci_ok(strip(user_move))) =>
        /\ report = InvalidFormat("InvalidMoveError")
        /\ board = before[1].board
        /\ move_history = before[1].move_history
        /\ evals = before[1].evals
        /\ last_data = before[1].last_data

\* the text "e2" was submitted to a session that holds a record and a summary
C7_Witness ==
    /\ Handled("play")
    /\ user_move = <<"e", "2">>
    /\ before[1].move_history # <<>>
    /\ before[1].last_data # <<>>
    /\ report.msg = "Invalid move format"

\* C8: a Play Move whose text is a move that is not legal in the Position is
\* reported as illegal (not as an invalid format), leaves the whole session as
\* the handler found it, and the handler issues no engine call.
C8_IllegalNoChange ==
    (/\ Handled("play")
     /\ uci_ok(strip(user_move))
     /\ ~is_legal(before[1].board, from_uci(strip(user_move)))) =>
        /\ report = IllegalMove
        /\ report.msg # "Invalid move format"
        /\ board = before[1].board
        /\ move_history = before[1].move_history
        /\ evals = before[1].evals
        /\ last_data = before[1].last_data
        /\ queries = before[1].queries

\* a well formed move was submitted after the game had ended
C8_Witness ==
    /\ Handled("play")
    /\ uci_ok(strip(user_move))
    /\ is_game_over(before[1].board)
    /\ report = IllegalMove

\* C9: when an engine call fails while a legal Play Move is handled, the error
\* is reported and the whole session, the Position included, is as before.
C9_EngineErrorNoChange ==
    (Handled("play") /\ report.e = "engine error") =>
        /\ board = before[1].board
        /\ move_history = before[1].move_history
        /\ evals = before[1].evals
        /\ last_data = before[1].last_data

\* C10: a successful Play Move leaves the move history as it was plus one record:
\* the text submitted, the engine's best move from the resulting position P1,
\* the classification of (eval_played, eval_best), and the value of eval_played.
C10_PlayAppendsRecord ==
    (Handled("play") /\ report = NoReport) =>
        LET n == Len(before[1].queries) IN
        /\ uci_ok(strip(user_move))
        /\ is_legal(before[1].board, from_uci(strip(user_move)))
        /\ board = push(before[1].board, from_uci(strip(user_move)))
        /\ Len(queries) = n + 6
        /\ queries[n + 2] = Query("get_evaluation", fen(board))
        /\ queries[n + 3] = Query("get_best_move", fen(board))
        /\ queries[n + 6] = Query("get_evaluation", engine_moves(fen(board), best_move[1]))
        /\ played_eval[1] = get_evaluation(queries[n + 2].position)
        /\ best_move[1] \in BestMoves(queries[n + 3].position)
        /\ best_eval[1] = get_evaluation(queries[n + 6].position)
        /\ move_history =
               Append(before[1].move_history,
                      [Your_Move |-> user_move,
                       Best_Move |-> best_move[1],
                       Move_Quality |-> move_quality(played_eval[1], best_eval[1]),
                       Eval |-> played_eval[1].value])

\* a move was played successfully in a session that already held a record
C10_Witness ==
    /\ Handled("play")
    /\ report = NoReport
    /\ before[1].move_history # <<>>
    /\ Len(move_history) = Len(before[1].move_history) + 1


\* C11: the Play Move handler appends a record and a sample together: the move
\* history and the sample sequence grow by the same number of entries while a
\* Play Move is handled, and the sample of a successful one is the score of the
\* position played.
C11_AtomicApply ==
    Handled("play") =>
        /\ Len(evals) - Len(before[1].evals)
               = Len(move_history) - Len(before[1].move_history)
        /\ report = NoReport =>
               evals = Append(before[1].evals, eval_score(played_eval[1]))

\* C12: in every reachable state the move history holds one record for every
\* ply applied to the Position.
C12_RecordPerPly == Len(move_history) = Len(move_stack(board))

-----------------------------------------------------------------------------
(* Steps of a run, for the properties of steps *)

\* a run starts: the widgets are read and the eval bar is drawn
RenderStep == pc = "idle" /\ pc' # "idle"

\* the handler of the run's button runs
HandlerStep == pc = "handlers" /\ pc' = "summary"

\* the last entry of evals is the sample of the position b, asked of the engine
\* by the first two calls of the run
SampledAt(b) ==
    /\ evals # <<>>
    /\ evals[Len(evals)] = eval_score(get_evaluation(fen(b)))
    /\ Len(queries) >= 2
    /\ SubSeq(queries, 1, 2) = RenderQueries(b)

PlayCallOrder ==
    << "set_fen_position", "get_evaluation", "get_best_move",
       "set_fen_position", "make_moves_from_current_position", "get_evaluation" >>

\* C14: a Play Move of a legal move changes the Position to P1, the position
\* after the move (an illegal one leaves it alone); the handler then asks the
\* engine, in this order, for the evaluation of P1, the best move from P1 and
\* the evaluation of P2 = P1 after the best move; the record and the summary
\* are written only when all calls have returned; the Position is P1 and never
\* P2.
C14_StepOrder ==
    (Handled("play") /\ uci_ok(strip(user_move))) =>
        LET m  == from_uci(strip(user_move))
            p0 == before[1].board
            n  == Len(before[1].queries)
            k  == Len(queries) - n
        IN  IF ~is_legal(p0, m)
            THEN board = p0 /\ k = 0
            ELSE /\ board = push(p0, m)
                 /\ k \in 1..6
                 /\ \A i \in 1..k : queries[n + i].op = PlayCallOrder[i]
                 /\ \A i \in 1..k : i <= 4 => queries[n + i].position = fen(board)
                 /\ \A i \in 1..k : i >= 5 =>
                        /\ best_move # <<>>
                        /\ best_move[1] \in BestMoves(queries[n + 3].position)
                        /\ queries[n + i].position = engine_moves(fen(board), best_move[1])
                 /\ (move_history # before[1].move_history
                        \/ last_data # before[1].last_data) => k = 6
                 /\ report = NoReport =>
                        /\ k = 6
                        /\ Len(move_history) = Len(before[1].move_history) + 1
                        /\ last_data # <<>>
                        /\ last_data[1].best_move = best_move[1]

\* a move was played successfully, the engine's best reply is a move, and the
\* Position is P1 while the engine was at P2
C14_Witness ==
    /\ Handled("play")
    /\ report = NoReport
    /\ best_move[1] # None
    /\ Len(board) = Len(before[1].board) + 1
    /\ queries[Len(queries)].position = Append(board, from_uci(best_move[1]))


\* lines 159-165: what the summary cards show of a last_data that holds data
Cards(data) ==
    [Your_Move |-> data.user_move, Best_Move |-> data.best_move,
     Move_Quality |-> data.quality, Eval |-> data.eval.value]

\* C15: in every reachable state the summary is empty exactly when the move
\* history is empty, and otherwise it shows the last record of the history.
C15_SummaryIsLastRecord ==
    /\ last_data = <<>> <=> move_history = <<>>
    /\ move_history # <<>> =>
           /\ last_data # <<>>
           /\ Cards(last_data[1]) = move_history[Len(move_history)]

\* C16: no engine failure ends a run with an error that nothing caught: the run
\* goes on to the handler of the button that was pressed.
C16_NoUncaughtError ==
    report.e = "engine error" =>
        /\ report.msg # "uncaught exception"
        /\ pc # "aborted"

Front(q) == SubSeq(q, 1, Len(q) - 1)

\* C17: in every reachable state the move history has at most as many records
\* as the Position has plies.
C17_HistoryWithinPlies == Len(move_history) <= Len(move_stack(board))

\* Undo has run on a Position that held more plies than the history held
\* records, and a record is left
C17_Witness ==
    /\ Handled("undo")
    /\ Len(before[1].move_history) < Len(before[1].board)
    /\ move_history # <<>>

\* C18: Undo on a Position with at least one ply takes back exactly one ply (the
\* Position before a successful Play Move, when it follows one), removes the last
\* sample if there is one and the last record if there is one; on a Position
\* without plies it changes nothing.
C18_UndoGatedOnPlies ==
    Handled("undo") =>
        /\ IF before[1].board # InitialBoard
           THEN /\ board = Front(before[1].board)
                /\ evals = IF before[1].evals # <<>>
                           THEN Front(before[1].evals) ELSE <<>>
                /\ move_history = IF before[1].move_history # <<>>
                                  THEN Front(before[1].move_history) ELSE <<>>
           ELSE /\ board = before[1].board
                /\ evals = before[1].evals
                /\ move_history = before[1].move_history
        /\ last_data = before[1].last_data
        /\ report = NoReport
        /\ played # <<>> => board = played[1].board

\* Undo has taken back a ply of a Position whose history held no record
C18_Witness ==
    /\ Handled("undo")
    /\ before[1].board # InitialBoard
    /\ before[1].move_history = <<>>
    /\ board = Front(before[1].board)
    /\ Len(evals) = Len(before[1].evals) - 1

clamp(x, lo, hi) == IF x < lo THEN lo ELSE IF x > hi THEN hi ELSE x

\* C19: the sample a render appends is the evaluation's own value for a
\* centipawn evaluation (not clamped), 1000 for a mate evaluation with value > 0
\* and -1000 for a mate evaluation with value <= 0; the bar's fill height is
\* 1000 + clamp(sample, -1000, 1000) and lies within 0..2000.
C19_SampleAndBarHeight ==
    /\ pc \in {"draw", "drawn"} =>
           LET e == eval_data[1]
               sample == evals[Len(evals)]
           IN  /\ e.type = "cp" => sample = e.value
               /\ (e.type = "mate" /\ e.value > 0) => sample = 1000
               /\ (e.type = "mate" /\ e.value <= 0) => sample = -1000
    /\ pc = "drawn" =>
           /\ bar_height[1] = 1000 + clamp(evals[Len(evals)], -1000, 1000)
           /\ bar_height[1] \in 0..2000

\* a centipawn evaluation beyond the bar's range has been sampled unclamped and
\* drawn as a full bar
C19_Witness ==
    /\ pc = "drawn"
    /\ eval_data = <<Evaluation("cp", 1500)>>
    /\ evals = <<1500>>
    /\ bar_height = <<2000>>

=============================================================================
